---------------------------- MODULE Spec2Model ----------------------------
(***************************************************************************)
(* A model of pubmed_paper_fetcher: PubMedFetcher (fetcher.py), the rate   *)
(* limiter, the on-disk record cache, the retrying request wrapper, the    *)
(* extraction of a Paper from a PubMed detail document, and the            *)
(* fetch_papers loop.                                                      *)
(*                                                                         *)
(* Time is counted in hundredths of a second.  Texts that the code         *)
(* inspects character by character (affiliations, keywords) are sequences  *)
(* of one-character strings; texts it only passes along are TLA+ strings.  *)
(***************************************************************************)
EXTENDS Integers, Sequences, FiniteSets, TLC

-----------------------------------------------------------------------------
(* Program constants                                                       *)

\* fetcher.py:43  RATE_LIMIT_DELAY = 0.34 s
RATE_LIMIT_DELAY == 34

\* fetcher.py:42  CACHE_EXPIRY = 24 * 60 * 60 s
CACHE_EXPIRY == 24 * 60 * 60 * 100

\* fetcher.py:89
max_retries == 3

\* fetcher.py:90  retry_delay = 1 s
retry_delay == 100

\* fetcher.py:230  PubMed's maximum retmax
PUBMED_MAX == 1000

-----------------------------------------------------------------------------
(* Bounds of the model                                                     *)

\* max_results ranges over 1..MaxResults
MaxResults == 2

\* the longest idlist the remote answers with
MaxIdList == 3

\* time.time() at construction of the fetcher
StartTime == 10000000

\* the transport failures the network shows during one run
MaxFailures == 3

-----------------------------------------------------------------------------
(* Values                                                                  *)

None == [type |-> "NoneType"]

Str(v) == [type |-> "str", value |-> v]

Min(a, b) == IF a <= b THEN a ELSE b

UpperCase ==
    <<"A","B","C","D","E","F","G","H","I","J","K","L","M",
      "N","O","P","Q","R","S","T","U","V","W","X","Y","Z">>

LowerCase ==
    <<"a","b","c","d","e","f","g","h","i","j","k","l","m",
      "n","o","p","q","r","s","t","u","v","w","x","y","z">>

\* str.lower() on one character
LowerChar(c) ==
    IF \E i \in 1..Len(UpperCase) : UpperCase[i] = c
    THEN LowerCase[CHOOSE i \in 1..Len(UpperCase) : UpperCase[i] = c]
    ELSE c

\* str.lower()
Lower(s) == [i \in 1..Len(s) |-> LowerChar(s[i])]

\* needle in hay
Contains(hay, needle) ==
    \E i \in 0..(Len(hay) - Len(needle)) :
        SubSeq(hay, i + 1, i + Len(needle)) = needle

-----------------------------------------------------------------------------
(* _is_company_affiliation                                                 *)

company_keywords ==
    << <<"p","h","a","r","m","a","c","e","u","t","i","c","a","l">>,
       <<"b","i","o","t","e","c","h">>,
       <<"b","i","o","t","e","c","h","n","o","l","o","g","y">>,
       <<"p","h","a","r","m","a">>,
       <<"d","r","u","g"," ","c","o","m","p","a","n","y">>,
       <<"b","i","o","p","h","a","r","m","a","c","e","u","t","i","c","a","l">>,
       <<"b","i","o","p","h","a","r","m","a">>,
       <<"p","h","a","r","m","a","c","e","u","t","i","c","a","l","s">>,
       <<"b","i","o","p","h","a","r","m","a","c","e","u","t","i","c","a","l","s">>,
       <<"p","h","a","r","m","a","c","e","u","t","i","c","a","l"," ","c","o","m","p","a","n","y">>,
       <<"b","i","o","t","e","c","h"," ","c","o","m","p","a","n","y">>,
       <<"b","i","o","t","e","c","h","n","o","l","o","g","y"," ","c","o","m","p","a","n","y">>,
       <<"d","r","u","g"," ","d","e","v","e","l","o","p","m","e","n","t">>,
       <<"d","r","u","g"," ","d","i","s","c","o","v","e","r","y">>,
       <<"c","l","i","n","i","c","a","l"," ","d","e","v","e","l","o","p","m","e","n","t">>,
       <<"r","e","s","e","a","r","c","h"," ","a","n","d"," ","d","e","v","e","l","o","p","m","e","n","t">>,
       <<"R","&","D">>,
       <<"r","e","s","e","a","r","c","h"," ","&"," ","d","e","v","e","l","o","p","m","e","n","t">> >>

\* fetcher.py:187-198: the keywords are looked up, as written, in the
\* lower-cased affiliation
is_company_affiliation(affiliation) ==
    LET affiliation_lower == Lower(affiliation)
    IN  \E k \in 1..Len(company_keywords) :
            Contains(affiliation_lower, company_keywords[k])

-----------------------------------------------------------------------------
(* Affiliation texts of the modelled documents                             *)

AcmePharma == <<"A","c","m","e"," ","P","h","a","r","m","a">>

StateUniversity ==
    <<"S","t","a","t","e"," ","U","n","i","v","e","r","s","i","t","y">>

\* "Acme R&D"
AcmeRnD ==
    <<"A","c","m","e"," ","R","&","D">>

\* "BIOTECH Ltd"
BigBiotech ==
    <<"B","I","O","T","E","C","H"," ","L","t","d">>

\* "Pharma a@x.io"
PharmaMail ==
    <<"P","h","a","r","m","a"," ","a","@","x",".","i","o">>

\* "Uni b@y.edu"
UniMail ==
    <<"U","n","i"," ","b","@","y",".","e","d","u">>

\* "Acme Pharmaceuticals, Boston"
AcmeBoston ==
    <<"A","c","m","e"," ","P","h","a","r","m","a","c","e","u","t","i","c",
      "a","l","s",","," ","B","o","s","t","o","n">>

\* "Acme Pharmaceuticals"
AcmePharmaceuticals ==
    <<"A","c","m","e"," ","P","h","a","r","m","a","c","e","u","t","i","c",
      "a","l","s">>

\* "Pharmaceutical Company Inc."
PharmaceuticalCompanyInc ==
    <<"P","h","a","r","m","a","c","e","u","t","i","c","a","l"," ","C","o",
      "m","p","a","n","y"," ","I","n","c",".">>

\* "Biotech Solutions Ltd."
BiotechSolutionsLtd ==
    <<"B","i","o","t","e","c","h"," ","S","o","l","u","t","i","o","n","s",
      " ","L","t","d",".">>

\* "University of Example"
UniversityOfExample ==
    <<"U","n","i","v","e","r","s","i","t","y"," ","o","f"," ","E","x","a",
      "m","p","l","e">>

\* "Research Institute"
ResearchInstitute ==
    <<"R","e","s","e","a","r","c","h"," ","I","n","s","t","i","t","u","t",
      "e">>

-----------------------------------------------------------------------------
(* PubMed detail documents (the XML body of an efetch response)            *)

\* an element that is not in the document
Absent == [type |-> "absent"]

AffiliationInfo(text) == [Affiliation |-> text]

\* one <Author>: its name parts and its AffiliationInfo nodes, in order
AuthorNode(last, fore, affils) ==
    [LastName |-> last, ForeName |-> fore, affils |-> affils]

FullPubDate == [Year |-> Str("2023"), Month |-> Str("05"), Day |-> Str("17")]

NoYearPubDate == [Year |-> Absent, Month |-> Str("05"), Day |-> Str("17")]

\* a body ET.fromstring rejects
DocMalformed ==
    [wellformed |-> FALSE, article |-> FALSE, title |-> Absent,
     pubdate |-> Absent, authors |-> <<>>]

\* a well-formed body without a PubmedArticle node
DocNoArticle ==
    [wellformed |-> TRUE, article |-> FALSE, title |-> Absent,
     pubdate |-> Absent, authors |-> <<>>]

\* an industry record whose author has a family name only
DocCompany ==
    [wellformed |-> TRUE, article |-> TRUE, title |-> Str("Test Paper"),
     pubdate |-> FullPubDate,
     authors |-> <<AuthorNode(Str("Acme Group"), Absent,
                              <<AffiliationInfo(Str(AcmePharma))>>)>>]

\* an industry record whose author has a given and a family name
DocCompanyNamed ==
    [wellformed |-> TRUE, article |-> TRUE, title |-> Str("Named Paper"),
     pubdate |-> FullPubDate,
     authors |-> <<AuthorNode(Str("Doe"), Str("John"),
                              <<AffiliationInfo(Str(AcmePharma))>>)>>]

\* an academic record
DocAcademic ==
    [wellformed |-> TRUE, article |-> TRUE, title |-> Absent,
     pubdate |-> Absent,
     authors |-> <<AuthorNode(Str("Roe"), Absent,
                              <<AffiliationInfo(Str(StateUniversity))>>)>>]

\* an industry record whose PubDate has no Year
DocNoYear ==
    [wellformed |-> TRUE, article |-> TRUE, title |-> Str("Undated"),
     pubdate |-> NoYearPubDate,
     authors |-> <<AuthorNode(Str("Acme Group"), Absent,
                              <<AffiliationInfo(Str(AcmePharma))>>)>>]

\* an industry record whose affiliation names a city after a comma
DocAcmeBoston ==
    [wellformed |-> TRUE, article |-> TRUE, title |-> Str("Boston Paper"),
     pubdate |-> FullPubDate,
     authors |-> <<AuthorNode(Str("Acme Group"), Absent,
                              <<AffiliationInfo(Str(AcmeBoston))>>)>>]

\* the bodies the detail endpoint answers with
Docs ==
    {DocCompany, DocCompanyNamed, DocAcademic, DocNoArticle, DocMalformed,
     DocNoYear}

-----------------------------------------------------------------------------
(* Extraction of a Paper, fetcher.py:119-176                               *)

\* the texts datetime.strptime(..., "%Y-%m-%d") accepts, with their values
YearValue == ("2023" :> 2023) @@ ("2024" :> 2024)

MonthValue == ("01" :> 1) @@ ("05" :> 5)

DayValue == ("01" :> 1) @@ ("17" :> 17)

Datetime(y, m, d) == [type |-> "datetime", year |-> y, month |-> m, day |-> d]

\* datetime.now() of fetcher.py:138
Today == Datetime(2024, 1, 1)

Returned(v) == [kind |-> "return", value |-> v]

Raised(e) == [kind |-> "raise", error |-> e]

\* fetcher.py:136
strptime(year, month, day) ==
    IF year \in DOMAIN YearValue /\ month \in DOMAIN MonthValue
          /\ day \in DOMAIN DayValue
    THEN Returned(Datetime(YearValue[year], MonthValue[month], DayValue[day]))
    ELSE Raised("ValueError")

\* fetcher.py:131-138
PublicationDate(pub_date) ==
    IF pub_date # Absent
    THEN LET year  == IF pub_date.Year # Absent THEN pub_date.Year.value
                      ELSE "Unknown"
             month == IF pub_date.Month # Absent THEN pub_date.Month.value
                      ELSE "01"
             day   == IF pub_date.Day # Absent THEN pub_date.Day.value
                      ELSE "01"
         IN  strptime(year, month, day)
    ELSE Returned(Today)

\* fetcher.py:127-128
Title(title_elem) ==
    IF title_elem # Absent THEN title_elem.value ELSE "No title available"

\* fetcher.py:156 and 164
AffilText(affil) ==
    IF affil.Affiliation # Absent THEN affil.Affiliation.value ELSE <<>>

\* fetcher.py:148-151: f"{first_name.text} {last_name.text}", a str
RECURSIVE AuthorNames(_)
AuthorNames(author_list) ==
    IF author_list = <<>> THEN <<>>
    ELSE LET author == Head(author_list)
         IN  (IF author.LastName # Absent /\ author.ForeName # Absent
              THEN <<Str(<<author.ForeName.value, author.LastName.value>>)>>
              ELSE <<>>) \o AuthorNames(Tail(author_list))

\* fetcher.py:155-159: the inner loop stops at the first text with an "@"
FirstEmail(affils) ==
    LET hits == {i \in 1..Len(affils) : Contains(AffilText(affils[i]), <<"@">>)}
    IN  IF hits = {} THEN None
        ELSE Str(AffilText(affils[CHOOSE i \in hits : \A j \in hits : i <= j]))

\* fetcher.py:143-159: the outer loop goes on over the remaining authors,
\* so a later author's "@" text replaces an earlier one
RECURSIVE CorrespondingEmail(_, _)
CorrespondingEmail(author_list, email) ==
    IF author_list = <<>> THEN email
    ELSE LET found == FirstEmail(Head(author_list).affils)
         IN  CorrespondingEmail(Tail(author_list),
                                IF found # None THEN found ELSE email)

\* fetcher.py:162: article.findall(".//AffiliationInfo"), document order
RECURSIVE AllAffiliations(_)
AllAffiliations(author_list) ==
    IF author_list = <<>> THEN <<>>
    ELSE Head(author_list).affils \o AllAffiliations(Tail(author_list))

\* fetcher.py:163-166
RECURSIVE CompanyAffiliations(_)
CompanyAffiliations(affiliations) ==
    IF affiliations = <<>> THEN <<>>
    ELSE LET affil_text == AffilText(Head(affiliations))
         IN  (IF is_company_affiliation(affil_text) THEN <<affil_text>>
              ELSE <<>>) \o CompanyAffiliations(Tail(affiliations))

\* the fields Paper declares without a default, fetcher.py:28-31
RequiredFields == {"pubmed_id", "title", "publication_date", "authors"}

\* fetcher.py:31: authors is List[Author]; pydantic takes a mapping (or an
\* Author) for each element and rejects a str
ValidAuthors(authors) ==
    \A i \in 1..Len(authors) : authors[i].type = "dict"

\* fetcher.py:30: a datetime, or an ISO text pydantic parses into one
AsDatetime(v) == Datetime(v.year, v.month, v.day)

\* Paper(**fields), fetcher.py:26-34: pydantic validation of the fields
PaperInit(fields) ==
    IF ~(RequiredFields \subseteq DOMAIN fields) THEN Raised("ValidationError")
    ELSE IF ~ValidAuthors(fields.authors) THEN Raised("ValidationError")
    ELSE Returned(
        [pubmed_id |-> fields.pubmed_id,
         title |-> fields.title,
         publication_date |-> AsDatetime(fields.publication_date),
         authors |-> fields.authors,
         non_academic_authors |->
             IF "non_academic_authors" \in DOMAIN fields
             THEN fields.non_academic_authors ELSE <<>>,
         company_affiliations |->
             IF "company_affiliations" \in DOMAIN fields
             THEN fields.company_affiliations ELSE <<>>,
         corresponding_author_email |->
             IF "corresponding_author_email" \in DOMAIN fields
             THEN fields.corresponding_author_email ELSE None])

\* fetcher.py:119-176: the body of the try block up to the Paper, for the
\* document of a successful response
ExtractPaper(pmid, doc) ==
    IF ~doc.wellformed THEN Raised("ParseError")
    ELSE IF ~doc.article THEN Returned(None)
    ELSE LET publication_date == PublicationDate(doc.pubdate)
             authors == AuthorNames(doc.authors)
         IN  IF publication_date.kind = "raise" THEN publication_date
             ELSE PaperInit(
                 [pubmed_id |-> pmid,
                  title |-> Title(doc.title),
                  publication_date |-> publication_date.value,
                  authors |-> authors,
                  non_academic_authors |-> authors,
                  company_affiliations |->
                      CompanyAffiliations(AllAffiliations(doc.authors)),
                  corresponding_author_email |->
                      CorrespondingEmail(doc.authors, None)])

\* ExtractPaper, tabulated over the modelled identifiers and documents
Extracted ==
    [pmid \in {"1", "2"}, doc \in Docs \cup {DocAcmeBoston} |->
        ExtractPaper(pmid, doc)]

-----------------------------------------------------------------------------
(* The record cache, fetcher.py:59-85                                      *)

\* paper.dict(): a mapping that still holds publication_date as a datetime
Dict(fields) == [type |-> "dict", value |-> fields]

\* what json.dump can encode: a datetime is not JSON serializable
JsonSerializable(v) ==
    IF v.type = "dict"
    THEN ~("publication_date" \in DOMAIN v.value
              /\ v.value.publication_date.type = "datetime")
    ELSE v.type \in {"NoneType", "str"}

\* the content of one cache file
NoFile == [kind |-> "missing"]

\* text json.load rejects (garbage, or a truncated document)
Undecodable == [kind |-> "text"]

\* a decodable file holding the mapping data
JsonFile(data) == [kind |-> "json", data |-> data]

\* fetcher.py:59-73
get_cached_data(cache_file, current_time) ==
    IF cache_file.kind = "missing" THEN None
    ELSE IF cache_file.kind = "text" THEN None
    ELSE LET data == cache_file.data
         IN  IF "timestamp" \notin DOMAIN data THEN None
             ELSE IF current_time - data.timestamp > CACHE_EXPIRY THEN None
             ELSE IF "paper" \notin DOMAIN data THEN None
             ELSE data.paper

\* fetcher.py:75-85: open(cache_file, 'w') truncates the file, json.dump
\* writes the document piece by piece and stops at the first value it cannot
\* encode, which leaves a truncated document; the exception is logged.
cache_data(cache_file, paper_data, current_time) ==
    IF JsonSerializable(paper_data)
    THEN JsonFile([timestamp |-> current_time, paper |-> paper_data])
    ELSE Undecodable

\* fetcher.py:108: if cached_data
Truthy(v) == v.type # "NoneType"

\* fetcher.py:109: Paper(**cached_data)
PaperFromCache(cached_data) ==
    IF cached_data.type # "dict" THEN Raised("TypeError")
    ELSE PaperInit(cached_data.value)

\* an ISO date text as json stores it
IsoDate(y, m, d) == [type |-> "str", year |-> y, month |-> m, day |-> d]

\* a stored industry Paper
CachedCompany(pmid) ==
    Dict([pubmed_id |-> pmid, title |-> "Cached Paper",
          publication_date |-> IsoDate(2023, 5, 17), authors |-> <<>>,
          non_academic_authors |-> <<>>,
          company_affiliations |-> <<AcmePharma>>,
          corresponding_author_email |-> None])

\* a stored Paper without an industry affiliation
CachedAcademic(pmid) ==
    Dict([pubmed_id |-> pmid, title |-> "Cached Academic",
          publication_date |-> IsoDate(2023, 5, 17), authors |-> <<>>,
          non_academic_authors |-> <<>>,
          company_affiliations |-> <<>>,
          corresponding_author_email |-> None])

\* a mapping that lacks fields Paper requires
CachedMalformed(pmid) == Dict([pubmed_id |-> pmid])

\* what the cache directory may hold for pmid when the fetcher is built
\* (the last two files: one that expires 20 ticks later, one that has expired)
InitialCacheFiles(pmid) ==
    {NoFile, Undecodable,
     JsonFile([timestamp |-> StartTime]),
     JsonFile([timestamp |-> StartTime, paper |-> None]),
     JsonFile([timestamp |-> StartTime, paper |-> Str("x")]),
     JsonFile([timestamp |-> StartTime, paper |-> CachedMalformed(pmid)]),
     JsonFile([timestamp |-> StartTime, paper |-> CachedAcademic(pmid)]),
     JsonFile([timestamp |-> StartTime, paper |-> CachedCompany(pmid)]),
     JsonFile([timestamp |-> StartTime - CACHE_EXPIRY + 20,
               paper |-> CachedCompany(pmid)]),
     JsonFile([timestamp |-> StartTime - CACHE_EXPIRY - 1,
               paper |-> CachedCompany(pmid)])}

-----------------------------------------------------------------------------
(* The rate limiter and the retry policy                                   *)

\* a limiter that never sleeps
RateLimitSleep_never(current_time, last) == 0

\* fetcher.py:54-56: the argument of time.sleep, 0 when it is not called
RateLimitSleep(current_time, last) ==
    IF current_time - last < RATE_LIMIT_DELAY
    THEN RATE_LIMIT_DELAY - (current_time - last)
    ELSE 0

\* going on after the last attempt of range(max_retries)
IsLastAttempt_late(attempt_no) == attempt_no = max_retries

\* giving up one attempt early
IsLastAttempt_early(attempt_no) == attempt_no = max_retries - 2

\* fetcher.py:99
IsLastAttempt(attempt_no) == attempt_no = max_retries - 1

\* a backoff that does not grow
Backoff_constant(attempt_no) == retry_delay

\* fetcher.py:102
Backoff(attempt_no) == retry_delay * (attempt_no + 1)

\* requests.exceptions.RequestException raised by session.get or
\* raise_for_status
Failures == {"ConnectionError", "HTTPError"}

\* fetcher.py:230
Retmax(n) == Min(n, PUBMED_MAX)

\* fetcher.py:240
Slice(idlist, n) == SubSeq(idlist, 1, Min(n, Len(idlist)))

\* returning the Paper whatever its affiliations
process_paper_unfiltered(paper) == paper

\* fetcher.py:206-208
process_paper(paper) ==
    IF paper # None /\ paper.company_affiliations # <<>> THEN paper ELSE None

\* letting the exception leave _fetch_paper_details
fetch_details_reraise(e) == Raised(e)

\* fetcher.py:183-185: except Exception inside _fetch_paper_details
fetch_details_except(e) == Returned(None)

\* putting the new Paper in front
Appended_front(collected, paper) == <<paper>> \o collected

\* fetcher.py:246: papers.append(paper)
Appended(collected, paper) == Append(collected, paper)

\* working with the default of the parameter instead of the argument
MaxResultsParam_default(n) == 100

\* fetcher.py:210: the max_results the body of fetch_papers works with is
\* the one its caller passed
MaxResultsParam(n) == n

-----------------------------------------------------------------------------
(* State                                                                   *)

\* the identifiers of the modelled records
Ids == {"1", "2"}

\* the idlists an esearch response may carry (also more than retmax)
RECURSIVE SeqsUpTo(_, _)
SeqsUpTo(S, n) ==
    IF n = 0 THEN {<<>>}
    ELSE LET shorter == SeqsUpTo(S, n - 1)
         IN  shorter \cup {Append(q, x) : q \in shorter, x \in S}

IdLists == SeqsUpTo(Ids, MaxIdList)

\* the bodies an esearch response may carry
SearchBodies ==
    {[json |-> FALSE, esearchresult |-> FALSE, idlist |-> Absent],
     [json |-> TRUE, esearchresult |-> FALSE, idlist |-> Absent],
     [json |-> TRUE, esearchresult |-> TRUE, idlist |-> Absent]}
    \cup {[json |-> TRUE, esearchresult |-> TRUE, idlist |-> [ids |-> l]] :
             l \in IdLists}

\* how long one session.get takes
Latencies == {20}

\* how much later than asked time.sleep may return
Oversleeps == {0, 1}

VARIABLES
    cache,              \* CACHE_DIR: the file of each identifier
    now,                \* time.time()
    last_request_time,  \* self._last_request_time
    pc,                 \* "idle", "search", "loop", "detail", "done"
    requested,          \* the max_results the caller passed
    max_results,        \* the parameter inside fetch_papers
    retmax,             \* search_params["retmax"]
    attempt,            \* the loop variable of _make_request
    pmids,              \* fetch_papers: pmids
    idx,                \* position of the for loop in pmids
    papers,             \* fetch_papers: papers
    result,             \* what fetch_papers returned, None before it does
    log,                \* history: the _make_request events of the current
                        \* search or identifier
    error,              \* history: what the last _make_request raised
    caught,             \* history: what fetch_papers' except clause caught
    lastOutcome,        \* history: how the last processed identifier ended
    nFailed,            \* history: identifiers whose detail request failed
    failures,           \* environment: transport failures shown so far
    lastPut,            \* history: the last _cache_data call
    attempts,           \* history: number of session.get calls
    nWaits,             \* history: number of _rate_limit calls
    firstWait,          \* history: when the first _rate_limit returned
    prevWait,           \* history: when the one before the last returned
    lastSleep,          \* history: what the last _rate_limit slept
    document,           \* a detail document handed to the extraction
    details,            \* what _fetch_paper_details returned for it
    processed,          \* what _process_paper returned for it
    resume,             \* cli: the --resume option
    date_range,         \* cli: the parsed --date-range, None without one
    output_file,        \* cli: the --file option, None without one
    csv,                \* cli: the content of the file at output_file
    fetched,            \* cli: the list fetch_papers returned
    processed_pmids,    \* cli: the identifiers load_progress read
    cli_papers,         \* cli: get_papers_list's papers
    cli_pos,            \* cli: position of the for loop in fetched
    cli_pc,             \* cli: "start", "loop", "done"
    saves               \* cli history: number of save_to_csv calls

\* the state of one PubMedFetcher and of its fetch_papers call
fetcherVars ==
    <<cache, now, last_request_time, pc, requested, max_results, retmax,
      attempt, pmids, idx, papers, result, log, error, caught, lastOutcome,
      nFailed, failures, lastPut, attempts, nWaits, firstWait, prevWait,
      lastSleep>>

\* the state of the extraction of one document taken on its own
extractVars == <<document, details, processed>>

\* the state of get_papers_list
cliVars ==
    <<resume, date_range, output_file, csv, fetched, processed_pmids,
      cli_papers, cli_pos, cli_pc, saves>>

vars == <<fetcherVars, extractVars, cliVars>>

NoCatch == [error |-> "none", stage |-> "none"]

\* fetcher.py:45-49: a PubMedFetcher on which nothing was called yet
Constructed ==
    /\ now = StartTime
    /\ last_request_time = 0
    /\ pc = "idle"
    /\ requested = 0
    /\ max_results = 0
    /\ retmax = 0
    /\ attempt = 0
    /\ pmids = <<>>
    /\ idx = 0
    /\ papers = <<>>
    /\ result = None
    /\ log = <<>>
    /\ error = "none"
    /\ caught = NoCatch
    /\ lastOutcome = None
    /\ nFailed = 0
    /\ failures = 0
    /\ lastPut = None
    /\ attempts = 0
    /\ nWaits = 0
    /\ firstWait = 0
    /\ prevWait = 0
    /\ lastSleep = 0

\* no document is being extracted on its own
ExtractIdle ==
    /\ document = None
    /\ details = None
    /\ processed = None

\* get_papers_list is not running
CliIdle ==
    /\ resume = FALSE
    /\ date_range = None
    /\ output_file = None
    /\ csv = NoFile
    /\ fetched = <<>>
    /\ processed_pmids = {}
    /\ cli_papers = <<>>
    /\ cli_pos = 0
    /\ cli_pc = "start"
    /\ saves = 0

\* fetcher.py:45-49.  The cache directory holds a file for at most one
\* identifier; the identifiers being interchangeable, it is "1".
Init ==
    /\ ExtractIdle
    /\ CliIdle
    /\ cache \in [Ids -> InitialCacheFiles("1")]
    /\ cache["2"] = NoFile
    /\ Constructed

-----------------------------------------------------------------------------
(* _rate_limit and one attempt of _make_request                            *)

\* the oversleeps that make a difference in the current state
OversleepsNow ==
    IF RateLimitSleep(now, last_request_time) > 0 THEN Oversleeps ELSE {0}

\* fetcher.py:53-57: the time at which _rate_limit returns
AfterWait(over) ==
    LET slept == RateLimitSleep(now, last_request_time)
    IN  now + slept + (IF slept > 0 THEN over ELSE 0)

\* fetcher.py:51-57
rate_limit(over) ==
    /\ last_request_time' = AfterWait(over)
    /\ nWaits' = nWaits + 1
    /\ firstWait' = IF nWaits = 0 THEN AfterWait(over) ELSE firstWait
    /\ prevWait' = last_request_time
    /\ lastSleep' = RateLimitSleep(now, last_request_time)

WaitEvent == [ev |-> "rate_limit"]

GetEvent(outcome) == [ev |-> "get", outcome |-> outcome]

SleepEvent(secs) == [ev |-> "sleep", secs |-> secs]

\* fetcher.py:94-96 then 98-102: an attempt that fails and is retried
RequestRetry(over, latency, f) ==
    /\ pc \in {"search", "detail"}
    /\ ~IsLastAttempt(attempt)
    /\ failures < MaxFailures
    /\ failures' = failures + 1
    /\ rate_limit(over)
    /\ attempts' = attempts + 1
    /\ log' = log \o <<WaitEvent, GetEvent(f), SleepEvent(Backoff(attempt))>>
    /\ now' = AfterWait(over) + latency + Backoff(attempt)
    /\ attempt' = attempt + 1
    /\ UNCHANGED <<cache, pc, requested, max_results, retmax, pmids, idx,
                   papers, result, error, caught, lastOutcome, nFailed,
                   lastPut>>
    /\ UNCHANGED <<extractVars, cliVars>>

-----------------------------------------------------------------------------
(* fetch_papers                                                            *)

\* fetcher.py:210-233: the call, up to the first attempt of the search
FetchPapers(n) ==
    /\ pc = "idle"
    /\ requested' = n
    /\ max_results' = MaxResultsParam(n)
    /\ retmax' = Retmax(MaxResultsParam(n))
    /\ pc' = "search"
    /\ attempt' = 0
    /\ log' = <<>>
    /\ error' = "none"
    /\ UNCHANGED <<cache, now, last_request_time, pmids, idx, papers, result,
                   caught, lastOutcome, nFailed, failures, lastPut, attempts,
                   nWaits, firstWait, prevWait, lastSleep>>
    /\ UNCHANGED <<extractVars, cliVars>>

\* fetcher.py:99-100 then 252-254: the last attempt of the search fails, the
\* exception leaves _make_request and is caught by fetch_papers
SearchExhausted(over, latency, f) ==
    /\ pc = "search"
    /\ IsLastAttempt(attempt)
    /\ failures < MaxFailures
    /\ failures' = failures + 1
    /\ rate_limit(over)
    /\ attempts' = attempts + 1
    /\ log' = log \o <<WaitEvent, GetEvent(f)>>
    /\ now' = AfterWait(over) + latency
    /\ error' = f
    /\ caught' = [error |-> f, stage |-> "search"]
    /\ result' = Returned(<<>>)
    /\ pc' = "done"
    /\ UNCHANGED <<cache, requested, max_results, retmax, attempt, pmids, idx,
                   papers, lastOutcome, nFailed, lastPut>>
    /\ UNCHANGED <<extractVars, cliVars>>

\* fetcher.py:234-241 (and 250 for an empty pmids, 252-254 for a body that
\* is not JSON): the search is answered
SearchResponse(over, latency, body) ==
    /\ pc = "search"
    /\ rate_limit(over)
    /\ attempts' = attempts + 1
    /\ log' = log \o <<WaitEvent, GetEvent("ok")>>
    /\ now' = AfterWait(over) + latency
    /\ IF ~body.json
       THEN /\ caught' = [error |-> "JSONDecodeError", stage |-> "search"]
            /\ result' = Returned(<<>>)
            /\ pc' = "done"
            /\ UNCHANGED <<pmids, idx, papers>>
       ELSE IF ~body.esearchresult \/ body.idlist = Absent
       THEN /\ result' = Returned(<<>>)
            /\ pc' = "done"
            /\ UNCHANGED <<pmids, idx, papers, caught>>
       ELSE /\ pmids' = Slice(body.idlist.ids, max_results)
            /\ papers' = <<>>
            /\ IF Slice(body.idlist.ids, max_results) = <<>>
               THEN /\ result' = Returned(<<>>)
                    /\ pc' = "done"
                    /\ idx' = idx
               ELSE /\ result' = result
                    /\ pc' = "loop"
                    /\ idx' = 1
            /\ UNCHANGED caught
    /\ UNCHANGED <<cache, requested, max_results, retmax, attempt, error,
                   lastOutcome, nFailed, failures, lastPut>>
    /\ UNCHANGED <<extractVars, cliVars>>

\* fetcher.py:244-250 (and 252-254): what the loop does with the outcome of
\* _fetch_paper_details for pmids[idx]; tag says how that outcome came about
Collect(res, tag) ==
    IF res.kind = "raise"
    THEN /\ caught' = [error |-> res.error, stage |-> tag]
         /\ lastOutcome' = [tag |-> tag, kept |-> FALSE, escaped |-> TRUE]
         /\ nFailed' = nFailed
         /\ result' = Returned(<<>>)
         /\ pc' = "done"
         /\ UNCHANGED <<papers, idx>>
    ELSE LET paper == process_paper(res.value)
             grown == IF paper # None THEN Appended(papers, paper)
                      ELSE papers
             stop  == \/ paper # None /\ Len(grown) >= max_results
                      \/ idx = Len(pmids)
         IN  /\ papers' = grown
             /\ lastOutcome' = [tag |-> tag, kept |-> paper # None,
                                 escaped |-> FALSE]
             /\ nFailed' = IF tag = "failed" THEN nFailed + 1 ELSE nFailed
             /\ IF stop
                THEN /\ result' = Returned(grown)
                     /\ pc' = "done"
                     /\ idx' = idx
                ELSE /\ result' = result
                     /\ pc' = "loop"
                     /\ idx' = idx + 1
             /\ UNCHANGED caught

\* fetcher.py:107-109: the cache holds something truthy for pmids[idx]; the
\* Paper is built outside the try block
ProcessCached ==
    /\ pc = "loop"
    /\ LET cached_data == get_cached_data(cache[pmids[idx]], now)
       IN  /\ Truthy(cached_data)
           /\ Collect(PaperFromCache(cached_data), "cache")
    /\ log' = <<>>
    /\ error' = "none"
    /\ UNCHANGED <<cache, now, last_request_time, requested, max_results,
                   retmax, attempt, pmids, failures, lastPut, attempts,
                   nWaits, firstWait, prevWait, lastSleep>>
    /\ UNCHANGED <<extractVars, cliVars>>

\* fetcher.py:107-118: a cache miss, up to the first attempt of the request
ProcessMiss ==
    /\ pc = "loop"
    /\ ~Truthy(get_cached_data(cache[pmids[idx]], now))
    /\ pc' = "detail"
    /\ attempt' = 0
    /\ log' = <<>>
    /\ error' = "none"
    /\ UNCHANGED <<cache, now, last_request_time, requested, max_results,
                   retmax, pmids, idx, papers, result, caught, lastOutcome,
                   nFailed, failures, lastPut, attempts, nWaits, firstWait,
                   prevWait, lastSleep>>
    /\ UNCHANGED <<extractVars, cliVars>>

\* fetcher.py:99-100 then 183-185: the last attempt of the detail request
\* fails
DetailExhausted(over, latency, f) ==
    /\ pc = "detail"
    /\ IsLastAttempt(attempt)
    /\ failures < MaxFailures
    /\ failures' = failures + 1
    /\ rate_limit(over)
    /\ attempts' = attempts + 1
    /\ log' = log \o <<WaitEvent, GetEvent(f)>>
    /\ now' = AfterWait(over) + latency
    /\ error' = f
    /\ Collect(fetch_details_except(f), "failed")
    /\ UNCHANGED <<cache, requested, max_results, retmax, attempt, pmids,
                   lastPut>>
    /\ UNCHANGED <<extractVars, cliVars>>

\* fetcher.py:118-181 (and 183-185): the detail request is answered with
\* doc; a Paper that was built is cached and returned
DetailResponse(over, latency, doc) ==
    /\ pc = "detail"
    /\ rate_limit(over)
    /\ attempts' = attempts + 1
    /\ log' = log \o <<WaitEvent, GetEvent("ok")>>
    /\ now' = AfterWait(over) + latency
    /\ LET pmid == pmids[idx]
           got  == Extracted[pmid, doc]
       IN  IF got.kind = "raise"
           THEN /\ Collect(fetch_details_except(got.error), "failed")
                /\ UNCHANGED <<cache, lastPut>>
           ELSE IF got.value = None
           THEN /\ Collect(got, "absent")
                /\ UNCHANGED <<cache, lastPut>>
           ELSE /\ cache' = [cache EXCEPT ![pmid] =
                                cache_data(@, Dict(got.value), now')]
                /\ lastPut' = [pmid |-> pmid, paper_data |-> Dict(got.value),
                               time |-> now']
                /\ Collect(got, "fetched")
    /\ UNCHANGED <<requested, max_results, retmax, attempt, error, pmids,
                   failures>>
    /\ UNCHANGED <<extractVars, cliVars>>

Next ==
    \/ \E n \in 1..MaxResults : FetchPapers(n)
    \/ \E over \in OversleepsNow, latency \in Latencies, f \in Failures :
          RequestRetry(over, latency, f)
    \/ \E over \in OversleepsNow, latency \in Latencies, f \in Failures :
          SearchExhausted(over, latency, f)
    \/ \E over \in OversleepsNow, latency \in Latencies,
          body \in SearchBodies :
          SearchResponse(over, latency, body)
    \/ ProcessCached
    \/ ProcessMiss
    \/ \E over \in OversleepsNow, latency \in Latencies, f \in Failures :
          DetailExhausted(over, latency, f)
    \/ \E over \in OversleepsNow, latency \in Latencies, doc \in Docs :
          DetailResponse(over, latency, doc)

Spec == Init /\ [][Next]_vars

-----------------------------------------------------------------------------
(* fetch_papers against a remote that holds two records                    *)

\* the idlist of the search and the detail document of each identifier
TwoRecordsIdList == <<"1", "2">>

TwoRecordsDetail == ("1" :> DocAcmeBoston) @@ ("2" :> DocAcademic)

\* a fresh fetcher with an empty cache directory
TwoRecordsInit ==
    /\ Constructed
    /\ ExtractIdle
    /\ CliIdle
    /\ cache = [i \in Ids |-> NoFile]

\* the requests are answered, at once or after failed attempts
TwoRecordsNext ==
    \/ \E n \in 1..MaxResults : FetchPapers(n)
    \/ \E over \in OversleepsNow, latency \in Latencies, f \in Failures :
          RequestRetry(over, latency, f)
    \/ \E over \in OversleepsNow, latency \in Latencies :
          SearchResponse(over, latency,
                         [json |-> TRUE, esearchresult |-> TRUE,
                          idlist |-> [ids |-> TwoRecordsIdList]])
    \/ ProcessMiss
    \/ \E over \in OversleepsNow, latency \in Latencies :
          DetailResponse(over, latency, TwoRecordsDetail[pmids[idx]])

TwoRecordsSpec == TwoRecordsInit /\ [][TwoRecordsNext]_vars

-----------------------------------------------------------------------------
(* The search of fetch_papers around PubMed's maximum                      *)

\* how far below and above PubMed's maximum the sizes go
Beyond == 2

\* the max_results asked for, and the lengths of the idlists answered
LargeSizes == (PUBMED_MAX - Beyond)..(PUBMED_MAX + Beyond)

\* an idlist of k identifiers
LongIdList(k) == [i \in 1..k |-> "1"]

\* a fresh fetcher with an empty cache directory
LargeSearchInit ==
    /\ Constructed
    /\ ExtractIdle
    /\ CliIdle
    /\ cache = [i \in Ids |-> NoFile]

\* fetch_papers up to the start of its loop
LargeSearchNext ==
    \/ \E n \in LargeSizes : FetchPapers(n)
    \/ \E over \in OversleepsNow, latency \in Latencies, f \in Failures :
          pc = "search" /\ RequestRetry(over, latency, f)
    \/ \E over \in OversleepsNow, latency \in Latencies, f \in Failures :
          SearchExhausted(over, latency, f)
    \/ \E over \in OversleepsNow, latency \in Latencies, k \in LargeSizes :
          SearchResponse(over, latency,
                         [json |-> TRUE, esearchresult |-> TRUE,
                          idlist |-> [ids |-> LongIdList(k)]])

LargeSearchSpec == LargeSearchInit /\ [][LargeSearchNext]_vars

-----------------------------------------------------------------------------
(* _fetch_paper_details and _process_paper on one document                 *)

\* the most authors of a generated document
MaxAuthors == 2

\* the most AffiliationInfo nodes of a generated author
MaxAffils == 2

\* the affiliation texts of the generated authors
AuthorTexts == {AcmePharma, StateUniversity, AcmeRnD, PharmaMail, UniMail}

\* the AffiliationInfo lists of one generated author
AffilLists ==
    {[i \in 1..Len(q) |-> AffiliationInfo(Str(q[i]))] :
        q \in SeqsUpTo(AuthorTexts, MaxAffils)}

\* the name parts of the author at position i
LastNames == <<"Doe", "Roe", "Poe">>

ForeNames == <<"John", "Jane", "Joan">>

\* the author lists of the generated documents: each author carries a
\* family name, with or without a given name
RECURSIVE AuthorLists(_)
AuthorLists(n) ==
    IF n = 0 THEN {<<>>}
    ELSE LET shorter == AuthorLists(n - 1)
             longest == {q \in shorter : Len(q) = n - 1}
         IN  shorter \cup
             {Append(q, AuthorNode(Str(LastNames[n]), fore, affils)) :
                 q \in longest,
                 fore \in {Absent, Str(ForeNames[n])},
                 affils \in AffilLists}

\* documents that differ in their authors
AuthorDocs ==
    {[wellformed |-> TRUE, article |-> TRUE, title |-> Str("Generated"),
      pubdate |-> FullPubDate, authors |-> authors] :
        authors \in AuthorLists(MaxAuthors)}

\* documents with one author whose only affiliation is text
OneAffiliationDoc(text) ==
    [wellformed |-> TRUE, article |-> TRUE, title |-> Str("One affiliation"),
     pubdate |-> FullPubDate,
     authors |-> <<AuthorNode(Str("Doe"), Absent,
                              <<AffiliationInfo(Str(text))>>)>>]

\* the affiliations of test_extract_company_affiliations and other texts
ClassifierDocs ==
    {OneAffiliationDoc(text) :
        text \in {PharmaceuticalCompanyInc, BiotechSolutionsLtd,
                  UniversityOfExample, ResearchInstitute, BigBiotech,
                  AcmeBoston, AcmePharmaceuticals}}
    \cup {[wellformed |-> TRUE, article |-> TRUE,
           title |-> Str("No affiliation text"), pubdate |-> FullPubDate,
           authors |-> <<AuthorNode(Str("Doe"), Absent,
                                    <<AffiliationInfo(Absent),
                                      AffiliationInfo(Str(AcmePharma))>>)>>]}

\* the PubDate nodes: no node, or one with any of Year, Month, Day
PubDates ==
    {Absent} \cup
    [Year : {Absent, Str("2023")}, Month : {Absent, Str("05")},
     Day : {Absent, Str("17")}]

\* industry documents that differ in their PubDate
DateDocs ==
    {[wellformed |-> TRUE, article |-> TRUE, title |-> Str("Dated"),
      pubdate |-> pubdate,
      authors |-> <<AuthorNode(Str("Doe"), Absent,
                               <<AffiliationInfo(Str(AcmePharma))>>)>>] :
        pubdate \in PubDates}

\* the documents handed to the extraction
ExtractDocs == Docs \cup AuthorDocs \cup ClassifierDocs \cup DateDocs

\* a fresh fetcher with an empty cache directory and one document
ExtractInit ==
    /\ Constructed
    /\ CliIdle
    /\ cache = [i \in Ids |-> NoFile]
    /\ document \in ExtractDocs
    /\ details = None
    /\ processed = None

\* fetcher.py:104-185 on a cache miss whose request is answered with
\* document: the Paper that was built is cached and returned, an exception
\* is turned into None
FetchPaperDetails ==
    /\ document # None
    /\ details = None
    /\ LET got == ExtractPaper("1", document)
       IN  IF got.kind = "raise"
           THEN /\ details' = fetch_details_except(got.error)
                /\ cache' = cache
           ELSE /\ details' = got
                /\ cache' = IF got.value = None THEN cache
                            ELSE [cache EXCEPT !["1"] =
                                     cache_data(@, Dict(got.value), now)]
    /\ UNCHANGED <<now, last_request_time, pc, requested, max_results,
                   retmax, attempt, pmids, idx, papers, result, log, error,
                   caught, lastOutcome, nFailed, failures, lastPut, attempts,
                   nWaits, firstWait, prevWait, lastSleep>>
    /\ UNCHANGED <<document, processed, cliVars>>

\* fetcher.py:205-208
ProcessPaper ==
    /\ details # None
    /\ processed = None
    /\ processed' = Returned(process_paper(details.value))
    /\ UNCHANGED <<fetcherVars, document, details, cliVars>>

ExtractNext ==
    \/ FetchPaperDetails
    \/ ProcessPaper

ExtractSpec == ExtractInit /\ [][ExtractNext]_vars

-----------------------------------------------------------------------------
(* get_papers_list, cli.py:90-145, with an output file                     *)

\* the most Papers fetch_papers returns to get_papers_list
MaxFetched == 2

\* the most rows a previous run left in the output file
MaxPrevious == 2

\* cli.py:34: publication_date.strftime('%Y-%m-%d')
strftime(date) == IsoDate(date.year, date.month, date.day)

\* cli.py:35-36: '; '.join(texts)
RECURSIVE Join(_)
Join(texts) ==
    IF texts = <<>> THEN <<>>
    ELSE IF Len(texts) = 1 THEN texts[1]
    ELSE texts[1] \o <<";", " ">> \o Join(Tail(texts))

\* cli.py:31-38: the row of one Paper
CsvRow(paper) ==
    [PubmedID |-> paper.pubmed_id,
     Title |-> paper.title,
     PublicationDate |-> strftime(paper.publication_date),
     NonAcademicAuthors |-> Join(paper.non_academic_authors),
     CompanyAffiliations |-> Join(paper.company_affiliations),
     Email |-> IF paper.corresponding_author_email # None
               THEN paper.corresponding_author_email.value ELSE <<>>]

\* cli.py:21-38: the file save_to_csv leaves, a header and one row a Paper
save_to_csv(list) ==
    [kind |-> "csv", rows |-> [i \in 1..Len(list) |-> CsvRow(list[i])]]

\* cli.py:79-87
load_progress(file) ==
    IF file.kind = "missing" THEN {}
    ELSE {file.rows[i].PubmedID : i \in 1..Len(file.rows)}

\* accepting a Paper whatever load_progress read
IsProcessed_never(pmid, skip) == FALSE

\* cli.py:123
IsProcessed(pmid, skip) == pmid \in skip

\* a <= b on datetimes
DateLeq(a, b) ==
    \/ a.year < b.year
    \/ a.year = b.year /\ a.month < b.month
    \/ a.year = b.year /\ a.month = b.month /\ a.day <= b.day

\* cli.py:124-128: whether the Paper is appended
Accepted(paper, range) ==
    IF range # None
    THEN DateLeq(range.start_date, paper.publication_date)
            /\ DateLeq(paper.publication_date, range.end_date)
    ELSE TRUE

\* the identifiers of the Papers handed to get_papers_list
CliIds == {"1", "2", "3"}

\* a Paper as fetch_papers returns it
CliPaper(pmid, year) ==
    [pubmed_id |-> pmid, title |-> "Paper",
     publication_date |-> Datetime(year, 5, 17), authors |-> <<>>,
     non_academic_authors |-> <<>>,
     company_affiliations |-> <<AcmePharma, BigBiotech>>,
     corresponding_author_email |-> Str(PharmaMail)]

CliPapers == {CliPaper(pmid, year) : pmid \in CliIds, year \in {2023, 2024}}

\* what the output file holds before the run: nothing, or what the
\* save_to_csv of a previous run left
PreviousFiles ==
    {NoFile} \cup
    {save_to_csv(list) :
        list \in SeqsUpTo({CliPaper(pmid, 2023) : pmid \in CliIds},
                          MaxPrevious)}

\* the parsed --date-range options: none, or 2024-2024 (cli.py:70)
DateRanges ==
    {None, [start_date |-> Datetime(2024, 1, 1),
            end_date |-> Datetime(2024, 12, 31)]}

\* the command is started with --file, with or without --resume and
\* --date-range
CliInit ==
    /\ Constructed
    /\ ExtractIdle
    /\ cache = [i \in Ids |-> NoFile]
    /\ resume \in BOOLEAN
    /\ date_range \in DateRanges
    /\ output_file = Str("papers.csv")
    /\ csv \in PreviousFiles
    /\ fetched \in SeqsUpTo(CliPapers, MaxFetched)
    /\ processed_pmids = {}
    /\ cli_papers = <<>>
    /\ cli_pos = 0
    /\ cli_pc = "start"
    /\ saves = 0

\* cli.py:122 and 135: the for loop moves on, or ends
CliAdvance ==
    /\ cli_pos' = cli_pos + 1
    /\ cli_pc' = IF cli_pos = Len(fetched) THEN "done" ELSE "loop"

\* cli.py:102-122: up to the first iteration of the loop over the list
\* fetch_papers returned
CliStart ==
    /\ cli_pc = "start"
    /\ processed_pmids' = IF resume /\ output_file # None
                          THEN load_progress(csv) ELSE {}
    /\ cli_papers' = <<>>
    /\ cli_pos' = 1
    /\ cli_pc' = IF fetched = <<>> THEN "done" ELSE "loop"
    /\ UNCHANGED <<resume, date_range, output_file, csv, fetched, saves>>
    /\ UNCHANGED <<fetcherVars, extractVars>>

\* cli.py:123: a Paper load_progress read from the file is passed over
CliSkip ==
    /\ cli_pc = "loop"
    /\ IsProcessed(fetched[cli_pos].pubmed_id, processed_pmids)
    /\ CliAdvance
    /\ UNCHANGED <<resume, date_range, output_file, csv, fetched,
                   processed_pmids, cli_papers, saves>>
    /\ UNCHANGED <<fetcherVars, extractVars>>

\* cli.py:123-133: any other Paper is appended if its date is in the range,
\* and the file is written again
CliTake ==
    /\ cli_pc = "loop"
    /\ ~IsProcessed(fetched[cli_pos].pubmed_id, processed_pmids)
    /\ LET paper == fetched[cli_pos]
           grown == IF Accepted(paper, date_range)
                    THEN Append(cli_papers, paper) ELSE cli_papers
       IN  /\ cli_papers' = grown
           /\ IF output_file # None
              THEN csv' = save_to_csv(grown) /\ saves' = saves + 1
              ELSE UNCHANGED <<csv, saves>>
    /\ CliAdvance
    /\ UNCHANGED <<resume, date_range, output_file, fetched, processed_pmids>>
    /\ UNCHANGED <<fetcherVars, extractVars>>

CliNext ==
    \/ CliStart
    \/ CliSkip
    \/ CliTake

CliSpec == CliInit /\ [][CliNext]_vars

-----------------------------------------------------------------------------
(* Properties                                                              *)

InRequest == pc \in {"search", "detail"}

InLoop == pc \in {"loop", "detail"}

Done == pc = "done"

\* the get events of the log, in order
Gets == SelectSeq(log, LAMBDA e : e.ev = "get")

\* the sleep events of the log, in order
Sleeps == SelectSeq(log, LAMBDA e : e.ev = "sleep")

\* the number of rate-limit waits in the log
Waits == Len(SelectSeq(log, LAMBDA e : e.ev = "rate_limit"))

\* the number of failed attempts in the log
FailedGets == Len(SelectSeq(Gets, LAMBDA e : e.outcome # "ok"))

\* C1: fetch_papers(query, N) returns at most N Papers, and while the loop
\* is still processing identifiers fewer than N Papers have been collected
\* (it stops as soon as N are collected).
C1_AtMostMaxResults ==
    /\ result # None => Len(result.value) <= requested
    /\ InLoop => Len(papers) < requested

\* C1 witness: a run that returned exactly N = 2 Papers.
C1_Witness ==
    /\ Done
    /\ requested = 2
    /\ Len(result.value) = 2

\* C2: every Paper collected or returned by fetch_papers has at least one
\* company affiliation, whether it was fetched or served from the cache.
C2_NeverEmptyAffiliations ==
    /\ \A i \in 1..Len(papers) : papers[i].company_affiliations # <<>>
    /\ result # None =>
          \A i \in 1..Len(result.value) :
              result.value[i].company_affiliations # <<>>

\* C2 witness: a Paper served from the cache without a company affiliation
\* was dropped, and the run returned a Paper that has one.
C2_Witness ==
    /\ Done
    /\ lastOutcome = [tag |-> "cache", kept |-> FALSE, escaped |-> FALSE]
    /\ result.value # <<>>

\* C3: a step in which the detail request of an identifier fails (transport
\* failure after the retries, unparseable body, invalid field data) or finds
\* no article node raises nothing and leaves the collected Papers as they
\* were; the loop goes on to the next identifier, or, after the last one,
\* returns the Papers collected; and every run that ends without an
\* exception returns all the Papers it collected.
C3_DetailFailureIsSkipped ==
    [][/\ (pc = "detail" /\ pc' # "detail")
          => /\ lastOutcome'.tag \in {"failed", "absent"}
                => /\ ~lastOutcome'.escaped
                   /\ caught' = caught
                   /\ papers' = papers
                   /\ IF idx < Len(pmids)
                      THEN pc' = "loop" /\ idx' = idx + 1 /\ result' = None
                      ELSE pc' = "done" /\ result' = Returned(papers)
             /\ lastOutcome'.kept
                => /\ Len(papers') = Len(papers) + 1
                   /\ SubSeq(papers', 1, Len(papers)) = papers
                   /\ papers'[Len(papers')].pubmed_id = pmids[idx]
       /\ (InLoop /\ pc' = "done" /\ caught' = NoCatch)
          => result' = Returned(papers')]_vars

\* C3 witness: the first identifier's detail request failed, the second
\* identifier's Paper was collected afterwards and returned.
C3_Witness ==
    /\ Done
    /\ nFailed = 1
    /\ Len(pmids) = 2
    /\ lastOutcome.kept
    /\ Len(result.value) = 1

\* C4: whatever the cache directory holds, no exception raised while the
\* cache is consulted leaves the detail stage: the run is never ended by the
\* cache path.
C4_CacheNeverAborts == caught.stage # "cache"

\* C5: when every attempt of the search request failed, fetch_papers ends
\* by raising that failure, not by returning a list.
C5_SearchFailureSurfaces ==
    (Done /\ caught.stage = "search" /\ caught.error \in Failures)
        => result.kind = "raise"

\* C6: in _make_request every network attempt is immediately preceded by
\* its own rate-limit wait; one or two failed attempts do not fail the call;
\* and a call that got its response after k failures made k + 1 attempts
\* and k + 1 waits and raised nothing.
C6_RetryThenSuccess ==
    /\ \A i \in 1..Len(log) :
          /\ log[i].ev = "get" => (i > 1 /\ log[i - 1].ev = "rate_limit")
          /\ log[i].ev = "rate_limit" => (i < Len(log) /\ log[i + 1].ev = "get")
    /\ (FailedGets \in {1, 2} /\ FailedGets = Len(Gets))
          => (InRequest /\ error = "none")
    /\ (log # <<>> /\ log[Len(log)] = GetEvent("ok"))
          => /\ FailedGets <= 2
             /\ Len(Gets) = FailedGets + 1
             /\ Waits = FailedGets + 1
             /\ error = "none"
             /\ ~InRequest

\* C6 witness: the first two attempts failed and the third succeeded, with
\* three rate-limit waits.
C6_Witness ==
    /\ Len(Gets) = 3
    /\ Gets[1].outcome # "ok"
    /\ Gets[2].outcome # "ok"
    /\ Gets[3].outcome = "ok"
    /\ Waits = 3

\* C7: a _make_request call that raised made exactly 3 attempts, all
\* failed, slept 1 s after the first and 2 s after the second and not after
\* the third, and raised the failure of the third attempt.
C7_RetriesExhausted ==
    error # "none"
        => /\ Len(Gets) = 3
           /\ FailedGets = 3
           /\ Sleeps = <<SleepEvent(100), SleepEvent(200)>>
           /\ log[Len(log)].ev = "get"
           /\ error = log[Len(log)].outcome
           /\ ~InRequest

\* C7 witness: a call that raised after three failures, the last of them
\* different from the first two.
C7_Witness ==
    /\ error # "none"
    /\ Gets[1].outcome = Gets[2].outcome
    /\ Gets[3].outcome # Gets[1].outcome
    /\ error = Gets[3].outcome

\* C8: after _cache_data(id, payload), as long as no more than 24 h have
\* passed, _get_cached_data(id) returns a value equal to payload.
C8_RoundTrip ==
    (lastPut # None /\ now - lastPut.time <= CACHE_EXPIRY)
        => get_cached_data(cache[lastPut.pmid], now) = lastPut.paper_data

\* C9: once an identifier was fetched over the network and its Paper built
\* and cached, the next _fetch_paper_details of that identifier within 24 h
\* is served from the cache: it starts no request.
C9_SecondFetchIsCacheHit ==
    [][(/\ pc = "loop"
        /\ lastPut # None
        /\ lastPut.pmid = pmids[idx]
        /\ now - lastPut.time <= CACHE_EXPIRY)
       => pc' # "detail"]_vars

\* C10: two consecutive returns of _rate_limit are at least
\* RATE_LIMIT_DELAY apart, n waits span at least (n - 1) * RATE_LIMIT_DELAY,
\* and the first wait of a fresh fetcher does not sleep.
C10_RateLimit ==
    /\ nWaits >= 2 => last_request_time - prevWait >= RATE_LIMIT_DELAY
    /\ nWaits >= 1 =>
          last_request_time - firstWait >= (nWaits - 1) * RATE_LIMIT_DELAY
    /\ nWaits = 1 => lastSleep = 0

\* C10 witness: a third wait that had to sleep.
C10_Witness ==
    /\ nWaits >= 3
    /\ lastSleep > 0


-----------------------------------------------------------------------------
(* Properties of the extraction of one document                            *)

\* the affiliation texts of the document, in document order
AffiliationTexts ==
    LET affils == AllAffiliations(document.authors)
    IN  [i \in 1..Len(affils) |-> AffilText(affils[i])]

\* text contains a keyword of the list in some letter case
ContainsKeyword(text) ==
    \E k \in 1..Len(company_keywords) :
        Contains(Lower(text), Lower(company_keywords[k]))

\* the Paper _fetch_paper_details built for the document, if it built one
Built == details # None /\ details.value # None

\* C11: the company affiliations of a Paper are exactly the affiliation
\* texts of its document that contain a keyword of the list in any letter
\* case, in document order.
C11_CaseInsensitiveClassifier ==
    Built => details.value.company_affiliations
                 = SelectSeq(AffiliationTexts, ContainsKeyword)


\* the Paper _process_paper returned for the document, if it returned one
Kept == processed # None /\ processed.value # None

\* author has an affiliation the classifier takes for a company
HasCompanyAffiliation(author) ==
    \E i \in 1..Len(author.affils) :
        is_company_affiliation(AffilText(author.affils[i]))

\* names lists author: one of its entries ends with the author's family name
Lists(names, author) ==
    \E i \in 1..Len(names) :
        names[i].value[Len(names[i].value)] = author.LastName.value

\* C14: in a returned Paper, non_academic_authors lists an author of the
\* document if and only if that author has a company affiliation.
C14_NonAcademicAuthors ==
    Kept => \A i \in 1..Len(document.authors) :
                Lists(processed.value.non_academic_authors,
                      document.authors[i])
                    <=> HasCompanyAffiliation(document.authors[i])

\* C15: in a returned Paper, no affiliation text occurs twice in
\* company_affiliations.
C15_AffiliationsDeduplicated ==
    Kept => LET affiliations == processed.value.company_affiliations
            IN  \A i, j \in 1..Len(affiliations) :
                    i # j => affiliations[i] # affiliations[j]

\* the first affiliation text of the document, in document order, that
\* holds an "@"; None when there is none
FirstEmailInDocument ==
    LET texts == AffiliationTexts
        hits  == {i \in 1..Len(texts) : Contains(texts[i], <<"@">>)}
    IN  IF hits = {} THEN None
        ELSE Str(texts[CHOOSE i \in hits : \A j \in hits : i <= j])

\* C16: the corresponding author email of a Paper is the first affiliation
\* text of its document, in document order, that holds an "@", and None
\* when no affiliation text holds one.
C16_FirstEmailInDocument ==
    Built => details.value.corresponding_author_email = FirstEmailInDocument

\* the document has an article node and no author with both name parts
Extractable ==
    /\ document.wellformed
    /\ document.article
    /\ AuthorNames(document.authors) = <<>>

\* C17: a document with an article node yields a Paper whatever parts of
\* its PubDate are there; a Year, Month or Day that is there is the one of
\* the date, a missing Month or Day is 1.
C17_DateDefaults ==
    (details # None /\ Extractable)
        => /\ details.value # None
           /\ details.value.publication_date.type = "datetime"
           /\ document.pubdate # Absent =>
                 LET date  == details.value.publication_date
                     given == document.pubdate
                 IN  /\ given.Year # Absent
                           => date.year = YearValue[given.Year.value]
                     /\ date.month = IF given.Month # Absent
                                     THEN MonthValue[given.Month.value]
                                     ELSE 1
                     /\ date.day = IF given.Day # Absent
                                   THEN DayValue[given.Day.value]
                                   ELSE 1

-----------------------------------------------------------------------------
(* Properties of fetch_papers against the remote with two records          *)

\* the elements of a sequence
Range(q) == {q[i] : i \in 1..Len(q)}

\* C12: with search result ["1", "2"], "1" affiliated to "Acme
\* Pharmaceuticals, Boston" and "2" to "State University", fetch_papers
\* returns exactly one Paper, "1", whose company affiliations are
\* {"Acme Pharmaceuticals"} and whose corresponding author email is None.
C12_TwoRecords ==
    Done => /\ result.kind = "return"
            /\ Len(result.value) = 1
            /\ result.value[1].pubmed_id = "1"
            /\ Range(result.value[1].company_affiliations)
                   = {AcmePharmaceuticals}
            /\ result.value[1].corresponding_author_email = None


-----------------------------------------------------------------------------
(* Properties of the search around PubMed's maximum                        *)

\* C13: the search asks for min(max_results, 1000) hits, and the list of
\* identifiers fetch_papers goes through is at most that long, whatever the
\* length of the idlist the remote answered with.
C13_ProcessedAtMostRetmax ==
    pc # "idle" => /\ retmax = Min(requested, PUBMED_MAX)
                   /\ Len(pmids) <= Min(requested, PUBMED_MAX)


-----------------------------------------------------------------------------
(* Order and termination of fetch_papers                                   *)

\* the identifiers of a list of Papers
PubmedIds(list) == [i \in 1..Len(list) |-> list[i].pubmed_id]

\* a is b with some of its elements left out
RECURSIVE IsSubsequence(_, _)
IsSubsequence(a, b) ==
    IF a = <<>> THEN TRUE
    ELSE IF b = <<>> THEN FALSE
    ELSE IF Head(a) = Head(b) THEN IsSubsequence(Tail(a), Tail(b))
    ELSE IsSubsequence(a, Tail(b))

\* the identifiers the loop has dealt with
Handled ==
    IF pc \in {"loop", "detail"} THEN SubSeq(pmids, 1, idx - 1) ELSE pmids

\* C18: the search request comes first and is never made again once it was
\* answered or gave up after at most 3 attempts; the loop takes the
\* identifiers one position at a time; the Papers collected, and the Papers
\* returned, are in the order of the identifiers dealt with, some left out.
C18_SearchOnceThenInOrder ==
    [][/\ pc \in {"loop", "detail", "done"} => pc' # "search"
       /\ pc = "search"
             => (idx = 0 /\ attempts = attempt /\ attempt < max_retries)
       /\ pc \in {"loop", "detail"} => idx' \in {idx, idx + 1}
       /\ pc = "detail" => pc' \in {"detail", "loop", "done"}
       /\ IsSubsequence(PubmedIds(papers'), Handled')
       /\ (result' # None /\ caught' = NoCatch)
             => IsSubsequence(PubmedIds(result'.value), pmids')]_vars

\* C18 witness: two Papers with different identifiers were returned.
C18_Witness ==
    /\ Done
    /\ Len(result.value) = 2
    /\ result.value[1].pubmed_id # result.value[2].pubmed_id

\* what one identifier can cost: a loop step and max_retries attempts
StepsPerId == max_retries + 2

\* a number that every step of a run of fetch_papers makes smaller
Rank ==
    CASE pc = "search" ->
             max_results * StepsPerId + (max_retries - attempt) + 1
      [] pc = "loop"   -> (Len(pmids) - idx + 1) * StepsPerId
      [] pc = "detail" -> (Len(pmids) - idx + 1) * StepsPerId - 1 - attempt
      [] OTHER         -> 0

\* C19: every step of a run brings it closer to its end; the search makes
\* at most 3 attempts, each identifier at most 3, the run at most
\* 3 * (1 + min(k, max_results)); a request that failed 3 times is over.
C19_BoundedAttempts ==
    [][/\ pc # "idle" => (Rank' < Rank /\ Rank' >= 0)
       /\ pc' = "search" => attempts' <= max_retries - 1
       /\ pc' = "loop" => attempts' <= max_retries * idx'
       /\ pc' = "detail" => /\ attempt' <= max_retries - 1
                            /\ attempts' <= max_retries * idx' + attempt'
       /\ pc' = "done" => attempts' <= max_retries * (1 + Len(pmids'))
       /\ Len(pmids') <= max_results'
       /\ FailedGets' = max_retries => pc' \notin {"search", "detail"}]_vars

\* C19 witness: the detail request of an identifier failed 3 times and the
\* run went on.
C19_Witness ==
    /\ FailedGets = 3
    /\ pc \in {"loop", "done"}
    /\ pmids # <<>>
    /\ caught = NoCatch


-----------------------------------------------------------------------------
(* Properties of get_papers_list                                           *)

\* C20: with --resume and an output file, no Paper whose identifier
\* load_progress read from the file is accepted or written, and after a
\* save the file holds exactly the rows of the Papers accepted so far in
\* this run, in the order of their acceptance.
C20_ResumeSkipsAndRewrites ==
    (resume /\ output_file # None /\ cli_pc # "start")
        => /\ \A i \in 1..Len(cli_papers) :
                  cli_papers[i].pubmed_id \notin processed_pmids
           /\ saves > 0
                 => /\ csv.kind = "csv"
                    /\ [i \in 1..Len(csv.rows) |-> csv.rows[i].PubmedID]
                          = PubmedIds(cli_papers)
                    /\ \A i \in 1..Len(csv.rows) :
                          csv.rows[i].PubmedID \notin processed_pmids

\* C20 witness: a resumed run passed over a Paper of the previous run,
\* accepted the other and saved: the row of the previous run is gone.
C20_Witness ==
    /\ resume
    /\ cli_pc = "done"
    /\ Len(fetched) = 2
    /\ fetched[1].pubmed_id \in processed_pmids
    /\ Len(cli_papers) = 1
    /\ saves = 1
    /\ Len(csv.rows) = 1

=============================================================================
